---- MODULE Spec2Model ----
(***************************************************************************)
(* Model of postgresdb/copy_postgres_table_data/copy_postgres_table_data.py *)
(* One process invocation (main) is a sequence of steps, one per driver or  *)
(* helper call; the databases persist between invocations.                  *)
(***************************************************************************)
EXTENDS Integers, Sequences, FiniteSets, TLC

VARIABLES
    pc,          \* position of the running process inside main()
    run,         \* number of the current invocation (1..MaxRuns)
    argc,        \* len(sys.argv) of the current invocation
    src_cfg,     \* main: src_cfg (section returned by load_db_config)
    tgt_cfg,     \* main: tgt_cfg
    src_conn,    \* main: src_conn  ("unbound", "open", "closed")
    tgt_conn,    \* main: tgt_conn
    src_cols,    \* main: src_cols
    src_rows,    \* main: src_rows (row tuples, in fetch order)
    tgt_cols,    \* main: tgt_cols
    inserted,    \* main: inserted (Unset until insert_table_data returns)
    cause,       \* insert_table_data: the exception e caught at line 52
    ex,          \* the exception propagating to / caught by main's except
    reported,    \* what "ERROR: {ex}" printed (line 94)
    exiting,     \* status of the SystemExit raised so far (Unset if none)
    exitStatus,  \* exit status of the finished process (Unset while running)
    db,          \* committed contents of every table of every database
    pending,     \* rows inserted in the target connection's open transaction
    calls,       \* driver calls of the current invocation, in order
    db0,         \* db as it was when the current invocation started
    prev         \* summary of the previous invocation

vars == <<pc, run, argc, src_cfg, tgt_cfg, src_conn, tgt_conn, src_cols,
          src_rows, tgt_cols, inserted, cause, ex, reported, exiting,
          exitStatus, db, pending, calls, db0, prev>>

\* ---------------------------------------------------------------- bounds
MaxRows == 2
MaxRuns == 2

\* ------------------------------------------------------------ vocabulary
Unset == -1

Databases == {"db1", "db2"}
TableNames == {"orders", "items"}
ColumnLists == {<<"id", "amount">>, <<"amount", "id">>, <<"id", "total">>, <<"id">>}

required_keys == <<"host", "database", "user", "password", "table">>

Range(s) == {s[i] : i \in 1..Len(s)}

IndexOf(s, x) == CHOOSE i \in 1..Len(s) : s[i] = x

\* Values a key of a section may hold.
RunValues(key) ==
    CASE key = "database" -> Databases
      [] key = "table" -> TableNames
      [] OTHER -> {"x"}

\* A section of the ini file: found or not, and its options.
NoSection == [found |-> FALSE, opts |-> <<>>]

\* Every section holding any subset of the required keys, each with one of
\* its values or one of the values in extra.
SectionsOver(extra) ==
    {NoSection} \cup
    UNION {{[found |-> TRUE, opts |-> o] :
               o \in {f \in [K -> UNION {RunValues(k) \cup extra : k \in K}] :
                         \A k \in K : f[k] \in RunValues(k) \cup extra}} :
           K \in SUBSET Range(required_keys)}

RunSections == SectionsOver({})
AllSections == SectionsOver({""})

NoEx == [kind |-> "none", cause |-> "none"]
Raise(kind, why) == [kind |-> kind, cause |-> why]

NoTable == [exists |-> FALSE, cols |-> <<>>, rows |-> <<>>]

\* The table a database holds at start: n rows, each a column -> value map.
InitialTable(d, cols, n) ==
    [exists |-> TRUE, cols |-> cols,
     rows |-> [i \in 1..n |-> [c \in Range(cols) |-> <<d, c, i>>]]]

NoPrev == [status |-> Unset, src |-> "", tgt |-> "", table |-> "",
           before |-> <<>>, rows |-> <<>>]

Call(conn, op, ok) == [conn |-> conn, op |-> op, ok |-> ok]

\* --------------------------------------------------------- pure functions
\* load_db_config: the section found for env, or the error raised.
load_db_config(sec) ==
    IF ~sec.found
    THEN [ok |-> FALSE, cfg |-> <<>>, ex |-> Raise("ConfigNotFound", "section")]
    ELSE IF \E i \in 1..Len(required_keys) : required_keys[i] \notin DOMAIN sec.opts
    THEN LET i == CHOOSE j \in 1..Len(required_keys) :
                      /\ required_keys[j] \notin DOMAIN sec.opts
                      /\ \A k \in 1..(j-1) : required_keys[k] \in DOMAIN sec.opts
         IN [ok |-> FALSE, cfg |-> <<>>,
             ex |-> Raise("ConfigIncomplete", required_keys[i])]
    ELSE [ok |-> TRUE, cfg |-> sec.opts, ex |-> NoEx]

\* fetch_table_data: SELECT * returns the columns in table order and every
\* row as a tuple of values in that column order.
FetchRows(tbl) ==
    [i \in 1..Len(tbl.rows) |->
        [j \in 1..Len(tbl.cols) |-> tbl.rows[i][tbl.cols[j]]]]

\* INSERT INTO t ("c1",...) VALUES (%s,...): the k-th value of the tuple is
\* stored under the k-th named column.
\* Faulty variant: the values are bound to the named columns back to front.
BindRowReversed(colnames, tuple) ==
    [c \in Range(colnames) |-> tuple[Len(colnames) + 1 - IndexOf(colnames, c)]]

BindRow(colnames, tuple) ==
    [c \in Range(colnames) |-> tuple[IndexOf(colnames, c)]]

BindRows(colnames, rows) ==
    [i \in 1..Len(rows) |-> BindRow(colnames, rows[i])]

\* Faulty variant: the column names are compared as sets.
validate_schemas_unordered(s, d) == Range(s) = Range(d)

\* validate_schemas: list inequality raises.
validate_schemas(s, d) == s = d

SrcTable == db[src_cfg["database"]][src_cfg["table"]]
TgtTable == db[tgt_cfg["database"]][tgt_cfg["table"]]

\* -------------------------------------------------------------- the state
World(cs, ns) ==
    [d \in Databases |->
        [t \in TableNames |->
            IF t = "orders" THEN InitialTable(d, cs[d], ns[d]) ELSE NoTable]]

\* A fresh process before its first statement, against the databases w.
InitWith(w) ==
    /\ pc = "start"
    /\ run = 1
    /\ argc = Unset
    /\ src_cfg = <<>> /\ tgt_cfg = <<>>
    /\ src_conn = "unbound" /\ tgt_conn = "unbound"
    /\ src_cols = <<>> /\ src_rows = <<>> /\ tgt_cols = <<>>
    /\ inserted = Unset
    /\ cause = "none"
    /\ ex = NoEx /\ reported = NoEx
    /\ exiting = Unset /\ exitStatus = Unset
    /\ db = w
    /\ pending = <<>>
    /\ calls = <<>>
    /\ db0 = w
    /\ prev = NoPrev

\* db1 holds the table with the reference column list, db2 with any list;
\* either database can be the source or the target of a run.
Init ==
    \E cs \in {f \in [Databases -> ColumnLists] : f["db1"] = <<"id", "amount">>},
       ns \in [Databases -> 0..MaxRows] :
        InitWith(World(cs, ns))

\* An exception leaves the try body and is caught at lines 93-95: the error is
\* printed and SystemExit(2) raised; the finally clause runs next.
Fail(e) ==
    /\ ex' = e
    /\ reported' = e
    /\ exiting' = 2
    /\ pc' = "close_src"

\* ------------------------------------------------------------------ steps
\* Faulty variant: the usage error exits with the status of a runtime failure.
CheckArgsRuntimeStatus ==
    /\ pc = "start"
    /\ \E n \in 1..4 :
          /\ argc' = n
          /\ IF n # 3
             THEN exiting' = 2 /\ exitStatus' = 2 /\ pc' = "done"
             ELSE UNCHANGED <<exiting, exitStatus>> /\ pc' = "load_src"
    /\ UNCHANGED <<run, src_cfg, tgt_cfg, src_conn, tgt_conn, src_cols, src_rows,
                   tgt_cols, inserted, cause, ex, reported, db, pending, calls,
                   db0, prev>>

\* lines 61-64: a wrong argument count prints the usage and exits with status
\* 1 at once (the call is outside the try, so no finally clause runs).
CheckArgs ==
    /\ pc = "start"
    /\ \E n \in 1..4 :
          /\ argc' = n
          /\ IF n # 3
             THEN exiting' = 1 /\ exitStatus' = 1 /\ pc' = "done"
             ELSE UNCHANGED <<exiting, exitStatus>> /\ pc' = "load_src"
    /\ UNCHANGED <<run, src_cfg, tgt_cfg, src_conn, tgt_conn, src_cols, src_rows,
                   tgt_cols, inserted, cause, ex, reported, db, pending, calls,
                   db0, prev>>

\* line 70
LoadSrcFrom(S) ==
    /\ pc = "load_src"
    /\ \E sec \in S :
          LET r == load_db_config(sec) IN
          IF r.ok
          THEN src_cfg' = r.cfg /\ pc' = "load_tgt" /\ UNCHANGED <<ex, reported, exiting>>
          ELSE src_cfg' = src_cfg /\ Fail(r.ex)
    /\ UNCHANGED <<run, argc, tgt_cfg, src_conn, tgt_conn, src_cols, src_rows,
                   tgt_cols, inserted, cause, exitStatus, db,
                   pending, calls, db0, prev>>

\* line 71
LoadTgtFrom(S) ==
    /\ pc = "load_tgt"
    /\ \E sec \in S :
          LET r == load_db_config(sec) IN
          IF r.ok
          THEN tgt_cfg' = r.cfg /\ pc' = "check_table" /\ UNCHANGED <<ex, reported, exiting>>
          ELSE tgt_cfg' = tgt_cfg /\ Fail(r.ex)
    /\ UNCHANGED <<run, argc, src_cfg, src_conn, tgt_conn, src_cols, src_rows,
                   tgt_cols, inserted, cause, exitStatus, db,
                   pending, calls, db0, prev>>

LoadSrc == LoadSrcFrom(RunSections)
LoadTgt == LoadTgtFrom(RunSections)

\* Faulty variant: the table names are not compared.
CheckTableNamesSkipped ==
    /\ pc = "check_table"
    /\ pc' = "open_src"
    /\ UNCHANGED <<run, argc, src_cfg, tgt_cfg, src_conn, tgt_conn, src_cols,
                   src_rows, tgt_cols, inserted, cause, ex, reported, exiting,
                   exitStatus, db, pending, calls, db0, prev>>

\* lines 72-73
CheckTableNames ==
    /\ pc = "check_table"
    /\ IF src_cfg["table"] # tgt_cfg["table"]
       THEN Fail(Raise("TableNameMismatch", "table"))
       ELSE pc' = "open_src" /\ UNCHANGED <<ex, reported, exiting>>
    /\ UNCHANGED <<run, argc, src_cfg, tgt_cfg, src_conn, tgt_conn, src_cols,
                   src_rows, tgt_cols, inserted, cause, exitStatus, db, pending, calls, db0, prev>>

\* line 76, get_connection lines 17-28
OpenSource ==
    /\ pc = "open_src"
    /\ \E ok \in BOOLEAN :
          /\ calls' = Append(calls, Call("src", "connect", ok))
          /\ IF ok
             THEN src_conn' = "open" /\ pc' = "open_tgt" /\ UNCHANGED <<ex, reported, exiting>>
             ELSE src_conn' = src_conn /\ Fail(Raise("ConnectionFailed", "src"))
    /\ UNCHANGED <<run, argc, src_cfg, tgt_cfg, tgt_conn, src_cols, src_rows,
                   tgt_cols, inserted, cause, exitStatus, db,
                   pending, db0, prev>>

\* line 78
OpenTarget ==
    /\ pc = "open_tgt"
    /\ \E ok \in BOOLEAN :
          /\ calls' = Append(calls, Call("tgt", "connect", ok))
          /\ IF ok
             THEN tgt_conn' = "open" /\ pc' = "read_src" /\ UNCHANGED <<ex, reported, exiting>>
             ELSE tgt_conn' = tgt_conn /\ Fail(Raise("ConnectionFailed", "tgt"))
    /\ UNCHANGED <<run, argc, src_cfg, tgt_cfg, src_conn, src_cols, src_rows,
                   tgt_cols, inserted, cause, exitStatus, db,
                   pending, db0, prev>>

\* line 81, fetch_table_data lines 30-38 on the source connection
ReadSource ==
    /\ pc = "read_src"
    /\ \/ /\ calls' = Append(calls, Call("src", "cursor", FALSE))
          /\ Fail(Raise("DriverError", "cursor"))
          /\ UNCHANGED <<src_cols, src_rows>>
       \/ /\ calls' = calls \o <<Call("src", "cursor", TRUE), Call("src", "select", FALSE)>>
          /\ Fail(Raise("ReadFailed", "src"))
          /\ UNCHANGED <<src_cols, src_rows>>
       \/ /\ SrcTable.exists
          /\ calls' = calls \o <<Call("src", "cursor", TRUE), Call("src", "select", TRUE)>>
          /\ src_cols' = SrcTable.cols
          /\ src_rows' = FetchRows(SrcTable)
          /\ pc' = "read_tgt" /\ UNCHANGED <<ex, reported, exiting>>
    /\ UNCHANGED <<run, argc, src_cfg, tgt_cfg, src_conn, tgt_conn, tgt_cols,
                   inserted, cause, exitStatus, db, pending,
                   db0, prev>>

\* line 85, fetch_table_data on the target connection; the rows are dropped
ReadTarget ==
    /\ pc = "read_tgt"
    /\ \/ /\ calls' = Append(calls, Call("tgt", "cursor", FALSE))
          /\ Fail(Raise("DriverError", "cursor"))
          /\ UNCHANGED tgt_cols
       \/ /\ calls' = calls \o <<Call("tgt", "cursor", TRUE), Call("tgt", "select", FALSE)>>
          /\ Fail(Raise("ReadFailed", "tgt"))
          /\ UNCHANGED tgt_cols
       \/ /\ TgtTable.exists
          /\ calls' = calls \o <<Call("tgt", "cursor", TRUE), Call("tgt", "select", TRUE)>>
          /\ tgt_cols' = TgtTable.cols
          /\ pc' = "validate" /\ UNCHANGED <<ex, reported, exiting>>
    /\ UNCHANGED <<run, argc, src_cfg, tgt_cfg, src_conn, tgt_conn, src_cols,
                   src_rows, inserted, cause, exitStatus, db,
                   pending, db0, prev>>

\* Faulty variant: a schema mismatch is reported and the copy goes on.
ValidateWarnsOnly ==
    /\ pc = "validate"
    /\ IF validate_schemas(src_cols, tgt_cols)
       THEN UNCHANGED <<ex, reported, exiting>>
       ELSE /\ ex' = Raise("SchemaMismatch", "columns")
            /\ reported' = Raise("SchemaMismatch", "columns")
            /\ exiting' = 2
    /\ pc' = "insert"
    /\ UNCHANGED <<run, argc, src_cfg, tgt_cfg, src_conn, tgt_conn, src_cols,
                   src_rows, tgt_cols, inserted, cause, exitStatus, db, pending,
                   calls, db0, prev>>

\* line 86
Validate ==
    /\ pc = "validate"
    /\ IF validate_schemas(src_cols, tgt_cols)
       THEN pc' = "insert" /\ UNCHANGED <<ex, reported, exiting>>
       ELSE Fail(Raise("SchemaMismatch", "columns"))
    /\ UNCHANGED <<run, argc, src_cfg, tgt_cfg, src_conn, tgt_conn, src_cols,
                   src_rows, tgt_cols, inserted, cause, exitStatus, db, pending, calls, db0, prev>>

\* Faulty variant: no early return, the empty batch is inserted and committed.
InsertNoRowsThrough ==
    /\ pc = "insert"
    /\ src_rows = <<>>
    /\ calls' = Append(calls, Call("tgt", "cursor", TRUE))
    /\ pc' = "executemany"
    /\ UNCHANGED <<run, argc, src_cfg, tgt_cfg, src_conn, tgt_conn, src_cols,
                   src_rows, tgt_cols, inserted, cause, ex, reported, exiting,
                   exitStatus, db, pending, db0, prev>>

\* line 90, insert_table_data lines 41-43: nothing to insert
InsertNoRows ==
    /\ pc = "insert"
    /\ src_rows = <<>>
    /\ inserted' = 0
    /\ pc' = "close_src"
    /\ UNCHANGED <<run, argc, src_cfg, tgt_cfg, src_conn, tgt_conn, src_cols,
                   src_rows, tgt_cols, cause, ex, reported, exiting, exitStatus,
                   db, pending, calls, db0, prev>>

\* insert_table_data line 44: the cursor is opened outside the try
InsertCursor ==
    /\ pc = "insert"
    /\ src_rows # <<>>
    /\ \E ok \in BOOLEAN :
          /\ calls' = Append(calls, Call("tgt", "cursor", ok))
          /\ IF ok
             THEN pc' = "executemany" /\ UNCHANGED <<ex, reported, exiting>>
             ELSE Fail(Raise("DriverError", "cursor"))
    /\ UNCHANGED <<run, argc, src_cfg, tgt_cfg, src_conn, tgt_conn, src_cols,
                   src_rows, tgt_cols, inserted, cause, exitStatus, db, pending, db0, prev>>

\* Faulty variant: rows the target table already holds are skipped.
ExecutemanySkipExisting ==
    /\ pc = "executemany"
    /\ LET absent(r) == r \notin Range(TgtTable.rows) IN
       pending' = pending \o SelectSeq(BindRows(tgt_cols, src_rows), absent)
    /\ calls' = Append(calls, Call("tgt", "executemany", TRUE))
    /\ pc' = "commit"
    /\ UNCHANGED <<run, argc, src_cfg, tgt_cfg, src_conn, tgt_conn, src_cols,
                   src_rows, tgt_cols, inserted, cause, ex, reported, exiting,
                   exitStatus, db, db0, prev>>

\* insert_table_data line 49: the statement runs once per row, in order, inside
\* the connection's transaction; it may fail after any number k of rows.
Executemany ==
    /\ pc = "executemany"
    /\ \E k \in 0..Len(src_rows) :
          /\ pending' = pending \o BindRows(tgt_cols, SubSeq(src_rows, 1, k))
          /\ IF k = Len(src_rows)
             THEN /\ calls' = Append(calls, Call("tgt", "executemany", TRUE))
                  /\ pc' = "commit"
                  /\ cause' = cause
             ELSE /\ calls' = Append(calls, Call("tgt", "executemany", FALSE))
                  /\ pc' = "rollback"
                  /\ cause' = "executemany"
    /\ UNCHANGED <<run, argc, src_cfg, tgt_cfg, src_conn, tgt_conn, src_cols,
                   src_rows, tgt_cols, inserted, ex, reported, exiting,
                   exitStatus, db, db0, prev>>

\* Faulty variant: the writer is handed the source connection, so the batch
\* is committed into the source table.
CommitOnSource ==
    /\ pc = "commit"
    /\ calls' = Append(calls, Call("src", "commit", TRUE))
    /\ db' = [db EXCEPT ![src_cfg["database"]][src_cfg["table"]].rows = @ \o pending]
    /\ pending' = <<>>
    /\ inserted' = Len(src_rows)
    /\ pc' = "close_src"
    /\ UNCHANGED <<run, argc, src_cfg, tgt_cfg, src_conn, tgt_conn, src_cols,
                   src_rows, tgt_cols, cause, ex, reported, exiting, exitStatus,
                   db0, prev>>

\* insert_table_data lines 50-51
Commit ==
    /\ pc = "commit"
    /\ \/ /\ calls' = Append(calls, Call("tgt", "commit", TRUE))
          /\ db' = [db EXCEPT ![tgt_cfg["database"]][tgt_cfg["table"]].rows = @ \o pending]
          /\ pending' = <<>>
          /\ inserted' = Len(src_rows)
          /\ pc' = "close_src"
          /\ cause' = cause
       \/ /\ calls' = Append(calls, Call("tgt", "commit", FALSE))
          /\ cause' = "commit"
          /\ pc' = "rollback"
          /\ UNCHANGED <<db, pending, inserted>>
    /\ UNCHANGED <<run, argc, src_cfg, tgt_cfg, src_conn, tgt_conn, src_cols,
                   src_rows, tgt_cols, ex, reported, exiting, exitStatus, db0, prev>>

\* Faulty variant: the handler commits where it should roll back.
RollbackCommits ==
    /\ pc = "rollback"
    /\ calls' = Append(calls, Call("tgt", "commit", TRUE))
    /\ db' = [db EXCEPT ![tgt_cfg["database"]][tgt_cfg["table"]].rows = @ \o pending]
    /\ pending' = <<>>
    /\ Fail(Raise("WriteFailed", cause))
    /\ UNCHANGED <<run, argc, src_cfg, tgt_cfg, src_conn, tgt_conn, src_cols,
                   src_rows, tgt_cols, inserted, cause, exitStatus, db0, prev>>

\* insert_table_data lines 52-54: rollback, then raise RuntimeError(... {e});
\* an exception raised by rollback() itself leaves the handler in its place.
Rollback ==
    /\ pc = "rollback"
    /\ \/ /\ calls' = Append(calls, Call("tgt", "rollback", TRUE))
          /\ pending' = <<>>
          /\ Fail(Raise("WriteFailed", cause))
       \/ /\ calls' = Append(calls, Call("tgt", "rollback", FALSE))
          /\ pending' = pending
          /\ Fail(Raise("DriverError", "rollback"))
    /\ UNCHANGED <<run, argc, src_cfg, tgt_cfg, src_conn, tgt_conn, src_cols,
                   src_rows, tgt_cols, inserted, cause, exitStatus, db, db0, prev>>

\* Faulty variant: both closes share one try, so a failing source close
\* skips the target's.
CloseSourceSkipping ==
    /\ pc = "close_src"
    /\ IF src_conn = "unbound"
       THEN UNCHANGED <<src_conn, calls, pending, exitStatus>> /\ pc' = "close_tgt"
       ELSE \E ok \in BOOLEAN :
               /\ calls' = Append(calls, Call("src", "close", ok))
               /\ src_conn' = IF ok THEN "closed" ELSE src_conn
               /\ IF ok
                  THEN UNCHANGED <<pending, exitStatus>> /\ pc' = "close_tgt"
                  ELSE /\ pending' = <<>>
                       /\ exitStatus' = IF exiting = Unset THEN 0 ELSE exiting
                       /\ pc' = "done"
    /\ UNCHANGED <<run, argc, src_cfg, tgt_cfg, tgt_conn, src_cols, src_rows,
                   tgt_cols, inserted, cause, ex, reported, exiting, db, db0, prev>>

\* lines 97-100: an unbound src_conn raises a NameError the bare except swallows
CloseSource ==
    /\ pc = "close_src"
    /\ IF src_conn = "unbound"
       THEN UNCHANGED <<src_conn, calls>>
       ELSE \E ok \in BOOLEAN :
               /\ calls' = Append(calls, Call("src", "close", ok))
               /\ src_conn' = IF ok THEN "closed" ELSE src_conn
    /\ pc' = "close_tgt"
    /\ UNCHANGED <<run, argc, src_cfg, tgt_cfg, tgt_conn, src_cols, src_rows,
                   tgt_cols, inserted, cause, ex, reported, exiting, exitStatus,
                   db, pending, db0, prev>>

\* Faulty variant: the close is not guarded, its failure becomes the outcome.
CloseTargetRaising ==
    /\ pc = "close_tgt"
    /\ IF tgt_conn = "unbound"
       THEN /\ UNCHANGED <<tgt_conn, calls, ex, reported, exiting>>
            /\ exitStatus' = IF exiting = Unset THEN 0 ELSE exiting
       ELSE \E ok \in BOOLEAN :
               /\ calls' = Append(calls, Call("tgt", "close", ok))
               /\ tgt_conn' = IF ok THEN "closed" ELSE tgt_conn
               /\ IF ok
                  THEN /\ UNCHANGED <<ex, reported, exiting>>
                       /\ exitStatus' = IF exiting = Unset THEN 0 ELSE exiting
                  ELSE /\ ex' = Raise("DriverError", "close")
                       /\ reported' = Raise("DriverError", "close")
                       /\ exiting' = 2
                       /\ exitStatus' = 2
    /\ pending' = <<>>
    /\ pc' = "done"
    /\ UNCHANGED <<run, argc, src_cfg, tgt_cfg, src_conn, src_cols, src_rows,
                   tgt_cols, inserted, cause, db, db0, prev>>

\* lines 101-104, after which the process ends: with status 0 unless a
\* SystemExit is propagating. The transaction the target connection still had
\* open is discarded, by close() or by the server once the process is gone.
CloseTarget ==
    /\ pc = "close_tgt"
    /\ IF tgt_conn = "unbound"
       THEN UNCHANGED <<tgt_conn, calls>>
       ELSE \E ok \in BOOLEAN :
               /\ calls' = Append(calls, Call("tgt", "close", ok))
               /\ tgt_conn' = IF ok THEN "closed" ELSE tgt_conn
    /\ pending' = <<>>
    /\ exitStatus' = IF exiting = Unset THEN 0 ELSE exiting
    /\ pc' = "done"
    /\ UNCHANGED <<run, argc, src_cfg, tgt_cfg, src_conn, src_cols, src_rows,
                   tgt_cols, inserted, cause, ex, reported, exiting, db, db0, prev>>

\* What the next invocation can know of this one.
Summary ==
    IF exitStatus = 0
    THEN [status |-> 0, src |-> src_cfg["database"], tgt |-> tgt_cfg["database"],
          table |-> tgt_cfg["table"],
          before |-> db0[tgt_cfg["database"]][tgt_cfg["table"]].rows,
          rows |-> src_rows]
    ELSE NoPrev

\* lines 106-107: the script is invoked again, against the same databases
Restart ==
    /\ pc = "done"
    /\ run < MaxRuns
    /\ run' = run + 1
    /\ prev' = Summary
    /\ db0' = db
    /\ pc' = "start"
    /\ argc' = Unset
    /\ src_cfg' = <<>> /\ tgt_cfg' = <<>>
    /\ src_conn' = "unbound" /\ tgt_conn' = "unbound"
    /\ src_cols' = <<>> /\ src_rows' = <<>> /\ tgt_cols' = <<>>
    /\ inserted' = Unset
    /\ cause' = "none"
    /\ ex' = NoEx /\ reported' = NoEx
    /\ exiting' = Unset /\ exitStatus' = Unset
    /\ calls' = <<>>
    /\ UNCHANGED <<db, pending>>

Next ==
    \/ CheckArgs \/ LoadSrc \/ LoadTgt \/ CheckTableNames
    \/ OpenSource \/ OpenTarget \/ ReadSource \/ ReadTarget \/ Validate
    \/ InsertNoRows \/ InsertCursor \/ Executemany \/ Commit \/ Rollback
    \/ CloseSource \/ CloseTarget \/ Restart

Spec == Init /\ [][Next]_vars

\* Config resolution alone, over every shape of section (missing and empty
\* values included).
InitResolve ==
    InitWith(World([d \in Databases |-> <<"id", "amount">>], [d \in Databases |-> 1]))

NextResolve == CheckArgs \/ LoadSrcFrom(AllSections) \/ LoadTgtFrom(AllSections)

SpecResolve == InitResolve /\ [][NextResolve]_vars

\* ------------------------------------------------------ derived predicates
Loaded == DOMAIN src_cfg # {} /\ DOMAIN tgt_cfg # {}

Teardown == pc \in {"close_src", "close_tgt", "done"}

Made(conn, op) == {i \in 1..Len(calls) : calls[i].conn = conn /\ calls[i].op = op}

Did(conn, op, ok) == Call(conn, op, ok) \in Range(calls)

\* Rows of the source / target table when the invocation started.
SrcRows0 == db0[src_cfg["database"]][src_cfg["table"]].rows
TgtRows0 == db0[tgt_cfg["database"]][tgt_cfg["table"]].rows

\* The databases as they were at start, with the source table's rows
\* appended to the target table.
Copied ==
    [db0 EXCEPT ![tgt_cfg["database"]][tgt_cfg["table"]].rows = @ \o SrcRows0]

\* ------------------------------------------------------------------ claims
\* C1: at every point of every run, whatever fails, the committed tables are
\* either what they were when the run started or that plus ALL the source
\* table's rows appended to the target table; never a part of them.
C1_AllOrNothing ==
    \/ db = db0
    \/ Loaded /\ Did("tgt", "commit", TRUE) /\ db = Copied

\* C1 witness: the batch failed part-way and the rollback failed too, so the
\* connection is closed with a partial batch still in its transaction.
C1_Witness ==
    /\ pc = "close_tgt"
    /\ Did("tgt", "executemany", FALSE) /\ Did("tgt", "rollback", FALSE)
    /\ Len(pending) > 0 /\ Len(pending) < Len(src_rows)

\* C2: when the process has ended, a connection that was opened has received
\* exactly one close call and one that was never opened none; in particular
\* the target is closed whether or not the source's close failed.
C2_ClosedExactlyOnce ==
    /\ \A c \in {"src", "tgt"} : Cardinality(Made(c, "close")) <= 1
    /\ pc = "done" =>
          \A c \in {"src", "tgt"} :
              Cardinality(Made(c, "close")) = IF Did(c, "connect", TRUE) THEN 1 ELSE 0

\* C2 witness: the source's close failed and the target was closed all the same.
C2_Witness ==
    /\ pc = "done"
    /\ Did("src", "close", FALSE)
    /\ Cardinality(Made("tgt", "close")) = 1

\* C3: once two profiles with different table names are resolved, the run
\* fails with the table-name mismatch and never calls connect.
C3_TableMismatchBeforeConnect ==
    (Loaded /\ pc # "check_table" /\ src_cfg["table"] # tgt_cfg["table"]) =>
        /\ Made("src", "connect") = {} /\ Made("tgt", "connect") = {}
        /\ reported = Raise("TableNameMismatch", "table")
        /\ pc = "done" => exitStatus = 2

\* C3 witness: a finished run whose profiles named different tables.
C3_Witness ==
    /\ pc = "done"
    /\ Loaded
    /\ src_cfg["table"] # tgt_cfg["table"]

\* C4: once both column lists are read and they differ, the run fails with the
\* schema mismatch and issues neither an insert nor a commit; an insert is
\* issued only after both lists were read and found equal.
C4_SchemaCheckedBeforeInsert ==
    /\ (Did("tgt", "select", TRUE) /\ pc # "validate" /\ src_cols # tgt_cols) =>
          /\ reported = Raise("SchemaMismatch", "columns")
          /\ Made("tgt", "executemany") = {} /\ Made("tgt", "commit") = {}
          /\ pc = "done" => exitStatus = 2
    /\ Made("tgt", "executemany") # {} =>
          Did("src", "select", TRUE) /\ Did("tgt", "select", TRUE) /\ src_cols = tgt_cols

\* C4 witness: a finished run whose column lists hold the same names in a
\* different order.
C4_Witness ==
    /\ pc = "done"
    /\ Did("tgt", "select", TRUE)
    /\ src_cols # tgt_cols
    /\ Range(src_cols) = Range(tgt_cols)

\* C5 (as claimed): a profile is returned only when all five keys are present
\* and none of them is empty.
C5_ResolvedProfileNonEmpty ==
    \A cfg \in {src_cfg, tgt_cfg} :
        DOMAIN cfg # {} =>
            \A i \in 1..Len(required_keys) :
                required_keys[i] \in DOMAIN cfg /\ cfg[required_keys[i]] # ""

\* C6 (as claimed): once a failure of the insert or of its commit has left the
\* writer, a rollback was called and what main reports is the write failure
\* carrying the original cause, also when the rollback itself failed.
C6_WriteFailureReported ==
    (Teardown /\ (Did("tgt", "executemany", FALSE) \/ Did("tgt", "commit", FALSE))) =>
        /\ Made("tgt", "rollback") # {}
        /\ reported = Raise("WriteFailed", cause)

\* C7: a run in which no call failed and the column lists were equal ends with
\* status 0; and a run that ends with status 0 reports as many rows as the
\* source table held and leaves the target table with its prior rows followed
\* by the source table's rows, same values under the same columns, in order.
C7_CopyResult ==
    pc = "done" =>
        /\ (/\ Did("tgt", "select", TRUE) /\ src_cols = tgt_cols
            /\ \A i \in 1..Len(calls) : calls[i].ok) => exitStatus = 0
        /\ exitStatus = 0 =>
              /\ inserted = Len(SrcRows0)
              /\ db = Copied

\* C7 witness: two rows of two columns copied into another database's
\* non-empty table.
C7_Witness ==
    /\ pc = "done" /\ exitStatus = 0
    /\ src_cfg["database"] # tgt_cfg["database"]
    /\ Len(src_rows) = 2 /\ Len(tgt_cols) = 2
    /\ TgtRows0 # <<>>

\* C8: when the writer is reached with no fetched rows it returns 0, no
\* insert, commit or rollback is called, the tables are unchanged and the run
\* ends with status 0.
C8_EmptyCopyIsNoOp ==
    (/\ Teardown /\ Did("tgt", "select", TRUE)
     /\ src_cols = tgt_cols /\ src_rows = <<>>) =>
        /\ inserted = 0
        /\ \A op \in {"executemany", "commit", "rollback"} : Made("tgt", op) = {}
        /\ db = db0
        /\ reported = NoEx
        /\ pc = "done" => exitStatus = 0

\* C8 witness: an empty source table copied into a non-empty target table.
C8_Witness ==
    /\ pc = "done"
    /\ Did("tgt", "select", TRUE)
    /\ src_cols = tgt_cols /\ src_rows = <<>>
    /\ TgtRows0 # <<>>

\* C9: a failing close changes nothing of the outcome: a run that committed
\* ends with status 0 and no error reported, and a run that reported an error
\* ends with status 2 and still reports that error, never the close's.
C9_CloseNeverChangesOutcome ==
    (pc = "done" /\ argc = 3) =>
        /\ Did("tgt", "commit", TRUE) => (exitStatus = 0 /\ reported = NoEx)
        /\ reported = ex
        /\ reported.cause # "close"
        /\ exitStatus = IF reported = NoEx THEN 0 ELSE 2

\* C9 witness: the write committed, then the target's close failed.
C9_Witness ==
    /\ pc = "done"
    /\ Did("tgt", "commit", TRUE)
    /\ Did("tgt", "close", FALSE)

\* C10: two successful runs in a row from the same source table (N > 0 rows)
\* of one database into the same table of another leave the target with what
\* it held before the first run followed by the source rows twice.
C10_SecondRunDuplicates ==
    (/\ pc = "done" /\ exitStatus = 0 /\ prev.status = 0
     /\ prev.src = src_cfg["database"] /\ prev.tgt = tgt_cfg["database"]
     /\ prev.table = tgt_cfg["table"]
     /\ prev.src # prev.tgt
     /\ src_rows # <<>>) =>
        /\ prev.rows = src_rows
        /\ TgtTable.rows = prev.before \o SrcTable.rows \o SrcTable.rows

\* C10 witness: the second of two such runs has finished.
C10_Witness ==
    /\ pc = "done" /\ exitStatus = 0 /\ prev.status = 0
    /\ prev.src = src_cfg["database"] /\ prev.tgt = tgt_cfg["database"]
    /\ prev.src # prev.tgt
    /\ Len(src_rows) = 2

\* The copy went through: both profiles resolved with the same table name,
\* both tables read with equal column lists, and the rows, if any, committed.
CopySucceeded ==
    /\ Loaded /\ src_cfg["table"] = tgt_cfg["table"]
    /\ Did("src", "select", TRUE) /\ Did("tgt", "select", TRUE)
    /\ src_cols = tgt_cols
    /\ src_rows = <<>> \/ Did("tgt", "commit", TRUE)

\* C11: a finished process has status 0 exactly when the copy went through; a
\* wrong argument count gives status 1 with no profile resolved, no driver
\* call made and no table changed; every runtime failure gives status 2.
C11_ExitStatus ==
    pc = "done" =>
        /\ exitStatus = 0 <=> (argc = 3 /\ CopySucceeded)
        /\ argc # 3 =>
              /\ exitStatus = 1
              /\ DOMAIN src_cfg = {} /\ DOMAIN tgt_cfg = {}
              /\ calls = <<>> /\ db = db0
        /\ (argc = 3 /\ ~CopySucceeded) =>
              /\ exitStatus = 2
              /\ reported.kind \in {"ConfigNotFound", "ConfigIncomplete",
                                    "TableNameMismatch", "ConnectionFailed",
                                    "ReadFailed", "SchemaMismatch", "WriteFailed",
                                    "DriverError"}

\* C11 witness: the second invocation is given a wrong argument count after
\* the first one copied rows.
C11_Witness ==
    /\ pc = "done" /\ argc # 3
    /\ run = 2 /\ prev.status = 0 /\ prev.rows # <<>>

\* The positions of main in program order, and the pipeline step each is in:
\* 1 resolve source, 2 resolve target, 3 check table names, 4 open source,
\* 5 open target, 6 read source, 7 read target columns, 8 validate schema,
\* 9 write target, 10 close connections.
PcOrder ==
    <<"start", "load_src", "load_tgt", "check_table", "open_src", "open_tgt",
      "read_src", "read_tgt", "validate", "insert", "executemany", "commit",
      "rollback", "close_src", "close_tgt", "done">>

Rank(p) == IndexOf(PcOrder, p)

StageOf(p) ==
    CASE p = "start" -> 0
      [] p \in {"insert", "executemany", "commit", "rollback"} -> 9
      [] p \in {"close_src", "close_tgt"} -> 10
      [] p = "done" -> 11
      [] OTHER -> Rank(p) - 1

\* A step of a run moves forward in program order, enters no step but the
\* next one or the teardown, and goes to the teardown at once when it fails;
\* the pipeline is cut short only by a failure (or by the usage exit).
C12_Step ==
    IF pc = "done"
    THEN pc' = "start" /\ run' = run + 1
    ELSE /\ Rank(pc') > Rank(pc)
         /\ \/ StageOf(pc') <= StageOf(pc) + 1
            \/ pc' = "close_src"
            \/ pc = "start" /\ pc' = "done" /\ argc' # 3
         /\ reported' # reported => (reported = NoEx /\ pc' = "close_src")
         /\ (pc' = "close_src" /\ StageOf(pc) < 9) => reported' # NoEx

\* After a failure only the teardown runs, a run that has not ended can take
\* a step, and a finished run is in exactly one of the two outcomes.
C12_State ==
    /\ reported # NoEx => Teardown
    /\ pc # "done" => ENABLED Next
    /\ (pc = "done" /\ argc = 3) =>
          /\ exitStatus \in {0, 2}
          /\ exitStatus = 2 <=> reported # NoEx
          /\ exitStatus = 0 <=> CopySucceeded

\* C12: in every run the steps are taken in the fixed order, each at most
\* once, and a failing step is followed by the teardown alone; every run
\* reaches its end, as succeeded or as failed: each step moves forward through
\* the finitely many positions and a run that has not ended is never stuck.
C12_FixedOrderToTheEnd ==
    /\ [][C12_Step]_vars
    /\ []C12_State

\* C12 witness: a run that failed reading the target's columns has ended with
\* both connections closed.
C12_Witness ==
    /\ pc = "done"
    /\ reported = Raise("ReadFailed", "tgt")
    /\ Made("src", "close") # {} /\ Made("tgt", "close") # {}

\* The source connection is used to connect, read once and close; every
\* insert, commit and rollback is made on the target connection.
C13_ConnectionsApart ==
    /\ \A i \in 1..Len(calls) :
          /\ calls[i].conn = "src" =>
                calls[i].op \in {"connect", "cursor", "select", "close"}
          /\ calls[i].op \in {"executemany", "commit", "rollback"} =>
                calls[i].conn = "tgt"
    /\ Cardinality(Made("src", "select")) <= 1

\* The target profile names the table the source profile names, in the same
\* database.
SameTable ==
    /\ Loaded
    /\ src_cfg["database"] = tgt_cfg["database"]
    /\ src_cfg["table"] = tgt_cfg["table"]

\* C13 (as claimed): the connections are kept apart and, whatever the outcome,
\* the source table holds at the end of the run what it held at its start.
C13_SourceNeverChanged ==
    /\ C13_ConnectionsApart
    /\ (pc = "done" /\ DOMAIN src_cfg # {}) => SrcTable = db0[src_cfg["database"]][src_cfg["table"]]

\* C13 (amended): the connections are kept apart, and the source table is
\* unchanged unless the target profile names that same table of the same
\* database; it then ends as it was or, after a committed copy, as its prior
\* rows followed by a copy of them.
C13_SourceChangedOnlyAsTarget ==
    /\ C13_ConnectionsApart
    /\ DOMAIN src_cfg # {} =>
          IF SameTable
          THEN SrcTable.rows \in {SrcRows0, SrcRows0 \o SrcRows0}
          ELSE SrcTable = db0[src_cfg["database"]][src_cfg["table"]]

\* C13 witness: rows of one database's table were committed into another's.
C13_Witness ==
    /\ pc = "done"
    /\ Did("tgt", "commit", TRUE)
    /\ ~SameTable
    /\ SrcRows0 # <<>>
====
